---- MODULE Spec2Model ----
(***************************************************************************)
(* Model of pulumi/core-infra: the c_KubernetesNetwork component           *)
(* (networking.py) and the tag helpers (helper.py).                        *)
(*                                                                         *)
(* A CIDR text "a.b.c.d/p" is the tuple <<a, b, c, d, p>>.  A dict is the   *)
(* sequence of its items in insertion order (MY_CIDR) or a function from   *)
(* its keys to its values (tags).  A resource handle is the record of the  *)
(* constructor call that made it; its id is the index of that call.        *)
(***************************************************************************)
EXTENDS Integers, Sequences, FiniteSets, TLC

\* ------------------------------------------------------------------ bounds

\* The largest number of items of MY_CIDR (the container and the subnets).
MaxBlocks == 3

\* ------------------------------------------------------------- input sets

\* Keys of MY_CIDR: the names the program and its tests use, and the names of
\* the fields c_KubernetesNetwork.__init__ assigns on self.
BlockNames == {"vpc", "public_subnet_1", "kubernetes_vpc", "igw", "ngw"}

\* The attributes __init__ assigns by name.
FieldNames == {"kubernetes_vpc", "igw", "eip", "ngw", "nat_route_table"}

AttrNames == BlockNames \cup FieldNames

\* Values of MY_CIDR.
Cidrs ==
    { <<10, 0, 0, 0, 21>>,     \* the container of __main__.py
      <<10, 0, 5, 0, 28>>,     \* public_subnet_1 of __main__.py
      <<10, 0, 5, 0, 27>>,     \* contained, overlaps 10.0.5.0/28
      <<10, 0, 8, 0, 28>>,     \* private, outside 10.0.0.0/21
      <<8, 8, 8, 0, 24>> }     \* public

\* "0.0.0.0/0"
DefaultRoute == <<0, 0, 0, 0, 0>>

\* No cidr_block argument.
NoCidr == <<>>

\* ---------------------------------------------------------------- helper.py

\* An optional dict: None, or a dict.
None == [some |-> FALSE, val |-> <<>>]

Some(d) == [some |-> TRUE, val |-> d]

EmptyDict == <<>>

\* dict.update / {**f, **g}: the entries of g replace those of f.
DictUpdate(f, g) ==
    [k \in (DOMAIN f) \cup (DOMAIN g) |-> IF k \in DOMAIN g THEN g[k] ELSE f[k]]

\* config.get_object("globalTags") or {}
get_global_tags(config) ==
    IF config.some /\ config.val # EmptyDict THEN config.val ELSE EmptyDict

\* merge_tags with the name applied after the additional tags.
merge_tags_NameLast(config, resource_name, additional_tags) ==
    LET tags == get_global_tags(config)
        more == IF additional_tags.some THEN additional_tags.val ELSE EmptyDict
    IN  DictUpdate(DictUpdate(tags, more), [k \in {"Name"} |-> resource_name])

merge_tags(config, resource_name, additional_tags) ==
    LET tags == DictUpdate(get_global_tags(config), [k \in {"Name"} |-> resource_name])
    IN  IF additional_tags.some /\ additional_tags.val # EmptyDict
        THEN DictUpdate(tags, additional_tags.val)
        ELSE tags

\* ------------------------------------------------------------ networking.py

VARIABLES
    MY_CIDR,      \* the dict passed to c_KubernetesNetwork, as its items in order
    config,       \* the stack's globalTags object (None when not configured)
    pc,           \* the statement of __init__ that runs next
    i,            \* position in list(MY_CIDR.items()) of the subnet loop (1-based)
    attrs,        \* the attributes of self set so far: name -> handle id (0: not set)
    calls,        \* the resource constructor calls made so far, in order
    err,          \* the exception that ended __init__ ("none" while there is none)
    raisedAt,     \* the statement the exception came from ("none" while there is none)
    tagCall,      \* the arguments of the last merge_tags call
    tagResult     \* the dict the last merge_tags call returned

vars == <<MY_CIDR, config, pc, i, attrs, calls, err, raisedAt, tagCall, tagResult>>

netVars == <<MY_CIDR, pc, i, attrs, calls, err, raisedAt>>

tagVars == <<config, tagCall, tagResult>>

\* list(MY_CIDR.keys())
Keys(d) == [n \in 1..Len(d) |-> d[n].name]

\* k in MY_CIDR
HasKey(d, k) == \E n \in 1..Len(d) : d[n].name = k

\* MY_CIDR[k]
Lookup(d, k) == d[CHOOSE n \in 1..Len(d) : d[n].name = k].cidr

\* The keys of a dict are pairwise distinct.
IsDict(d) == \A m, n \in 1..Len(d) : m # n => d[m].name # d[n].name

\* parent=self: the component itself, which no constructor call made.
Self == -1

\* No parent, no id argument.
NoId == 0

\* The handle a resource constructor returns: the call's arguments, and an id.
Resource(kind, name, cidr_block, vpc_id, allocation_id, subnet_id, routes, parent) ==
    [ kind          |-> kind,
      name          |-> name,
      id            |-> Len(calls) + 1,
      cidr_block    |-> cidr_block,
      vpc_id        |-> vpc_id,
      allocation_id |-> allocation_id,
      subnet_id     |-> subnet_id,
      routes        |-> routes,
      tags          |-> None,
      parent        |-> parent ]

\* self.<name> = <the handle of this call>
SetAttr(name) == [attrs EXCEPT ![name] = Len(calls) + 1]

\* The exception is caught and the statement that raised it runs again.
Raise_Retry(e) ==
    /\ pc' = pc
    /\ err' = e
    /\ raisedAt' = pc
    /\ UNCHANGED <<MY_CIDR, i, attrs, calls>>

\* An exception leaves __init__: nothing after the raising statement runs. Its
\* traceback names the statement it came from.
Raise(e) ==
    /\ pc' = "raised"
    /\ err' = e
    /\ raisedAt' = pc
    /\ UNCHANGED <<MY_CIDR, i, attrs, calls>>

\* The constructor call returns r, which is stored as self.<attr>.
Provisioned(r, attr, next) ==
    /\ calls' = Append(calls, r)
    /\ attrs' = SetAttr(attr)
    /\ pc' = next
    /\ UNCHANGED <<MY_CIDR, err, raisedAt>>

\* The position at which the subnet loop starts when it covers every item.
FirstSubnet_All == 2 - 1

\* for k,v in list(MY_CIDR.items())[1:] starts at the second item.
FirstSubnet == 2

\* self.kubernetes_vpc = aws.ec2.Vpc("kubernetes-vpc", cidr_block=MY_CIDR["vpc"], ...)
CreateVpc ==
    /\ pc = "vpc"
    /\ UNCHANGED tagVars
    /\ IF ~HasKey(MY_CIDR, "vpc")
       THEN Raise("KeyError") /\ i' = i
       ELSE \/ /\ Provisioned(
                    Resource("Vpc", "kubernetes-vpc", Lookup(MY_CIDR, "vpc"),
                             NoId, NoId, NoId, <<>>, Self),
                    "kubernetes_vpc",
                    IF FirstSubnet <= Len(MY_CIDR) THEN "subnets" ELSE "igw")
               /\ i' = FirstSubnet
            \/ Raise("ProvisionFailed") /\ i' = i

\* setattr(self, k, aws.ec2.Subnet(k, vpc_id=self.kubernetes_vpc.id, cidr_block=v,
\*                                 opts=ResourceOptions(parent=self.kubernetes_vpc)))
CreateSubnet ==
    /\ pc = "subnets"
    /\ i <= Len(MY_CIDR)
    /\ UNCHANGED tagVars
    /\ \/ /\ Provisioned(
                Resource("Subnet", MY_CIDR[i].name, MY_CIDR[i].cidr,
                         attrs["kubernetes_vpc"], NoId, NoId, <<>>,
                         attrs["kubernetes_vpc"]),
                MY_CIDR[i].name,
                IF i + 1 <= Len(MY_CIDR) THEN "subnets" ELSE "igw")
          /\ i' = i + 1
       \/ Raise("ProvisionFailed") /\ i' = i

\* The internet gateway made, with the NAT gateway made next, before the Eip.
CreateIgw_SkipEip ==
    /\ pc = "igw"
    /\ UNCHANGED <<tagVars, i>>
    /\ \/ Provisioned(
             Resource("InternetGateway", "public-igw", NoCidr,
                      attrs["kubernetes_vpc"], NoId, NoId, <<>>, NoId),
             "igw", "ngw")
       \/ Raise("ProvisionFailed")

\* The internet gateway made without a vpc_id.
CreateIgw_NoVpc ==
    /\ pc = "igw"
    /\ UNCHANGED <<tagVars, i>>
    /\ \/ Provisioned(
             Resource("InternetGateway", "public-igw", NoCidr,
                      NoId, NoId, NoId, <<>>, NoId),
             "igw", "eip")
       \/ Raise("ProvisionFailed")

\* self.igw = aws.ec2.InternetGateway("public-igw", vpc_id=self.kubernetes_vpc.id)
CreateIgw ==
    /\ pc = "igw"
    /\ UNCHANGED <<tagVars, i>>
    /\ \/ Provisioned(
             Resource("InternetGateway", "public-igw", NoCidr,
                      attrs["kubernetes_vpc"], NoId, NoId, <<>>, NoId),
             "igw", "eip")
       \/ Raise("ProvisionFailed")

\* self.eip = aws.ec2.Eip("natgw-eip", opts=ResourceOptions(parent=self))
CreateEip ==
    /\ pc = "eip"
    /\ UNCHANGED <<tagVars, i>>
    /\ \/ Provisioned(
             Resource("Eip", "natgw-eip", NoCidr, NoId, NoId, NoId, <<>>, Self),
             "eip", "ngw")
       \/ Raise("ProvisionFailed")

\* The NAT gateway's subnet read from the last item of MY_CIDR.
EgressSubnetId_Last == attrs[Keys(MY_CIDR)[Len(MY_CIDR)]]

\* getattr(self, list(MY_CIDR.keys())[1]).id
EgressSubnetId == attrs[Keys(MY_CIDR)[2]]

\* self.ngw = aws.ec2.NatGateway("ngw", allocation_id=self.eip.id,
\*                               subnet_id=getattr(self, list(MY_CIDR.keys())[1]).id, ...)
CreateNgw ==
    /\ pc = "ngw"
    /\ UNCHANGED <<tagVars, i>>
    /\ IF Len(MY_CIDR) < 2
       THEN Raise("IndexError")
       ELSE \/ Provisioned(
                  Resource("NatGateway", "ngw", NoCidr, NoId, attrs["eip"],
                           EgressSubnetId, <<>>, Self),
                  "ngw", "rt")
            \/ Raise("ProvisionFailed")

\* The default route sent to the internet gateway.
RouteTarget_Igw == attrs["igw"]

\* gateway_id=self.ngw.id
RouteTarget == attrs["ngw"]

\* self.nat_route_table = aws.ec2.RouteTable("nat-route-table",
\*     vpc_id=self.kubernetes_vpc.id,
\*     routes=[RouteTableRouteArgs(cidr_block="0.0.0.0/0", gateway_id=self.ngw.id)], ...)
CreateRouteTable ==
    /\ pc = "rt"
    /\ UNCHANGED <<tagVars, i>>
    /\ \/ Provisioned(
             Resource("RouteTable", "nat-route-table", NoCidr,
                      attrs["kubernetes_vpc"], NoId, NoId,
                      << [cidr_block |-> DefaultRoute, gateway_id |-> RouteTarget] >>,
                      Self),
             "nat_route_table", "done")
       \/ Raise("ProvisionFailed")

\* The globalTags of the test fixtures (test_helper.py, setUp).
SampleGlobalTags ==
    [k \in {"Environment", "Project"} |-> IF k = "Environment" THEN "test" ELSE "homelab"]

\* c_KubernetesNetwork(name, MY_CIDR): the state when __init__ starts, after
\* super().__init__, for a dict of at most MaxBlocks items.
Init ==
    /\ \E n \in 0..MaxBlocks :
         \E d \in [1..n -> [name : BlockNames, cidr : Cidrs]] :
            IsDict(d) /\ MY_CIDR = d
    /\ config \in {None, Some(SampleGlobalTags)}
    /\ pc = "vpc"
    /\ i = 0
    /\ attrs = [a \in AttrNames |-> NoId]
    /\ calls = <<>>
    /\ err = "none"
    /\ raisedAt = "none"
    /\ tagCall = [resource_name |-> "", additional_tags |-> None]
    /\ tagResult = None

Next ==
    \/ CreateVpc
    \/ CreateSubnet
    \/ CreateIgw
    \/ CreateEip
    \/ CreateNgw
    \/ CreateRouteTable

Spec == Init /\ [][Next]_vars

\* ------------------------------------------------- helper.py, as a program

\* Tag keys and values of the tests of merge_tags (test_helper.py).
TagKeys == {"Name", "Environment", "Type"}

TagVals == {"test", "staging"}

ResourceNames == {"default-name", "test"}

\* The dicts over TagKeys, the empty one included.
Dicts == UNION { [S -> TagVals] : S \in SUBSET TagKeys }

OptDicts == {None} \cup { Some(d) : d \in Dicts }

\* A process that only calls merge_tags: no component is being built.
TagInit ==
    /\ config \in OptDicts
    /\ MY_CIDR = <<>>
    /\ pc = "tags"
    /\ i = 0
    /\ attrs = [a \in AttrNames |-> NoId]
    /\ calls = <<>>
    /\ err = "none"
    /\ raisedAt = "none"
    /\ tagCall = [resource_name |-> "", additional_tags |-> None]
    /\ tagResult = None

\* tags = merge_tags(resource_name, additional_tags)
MergeTags ==
    /\ pc = "tags"
    /\ \E resource_name \in ResourceNames, additional_tags \in OptDicts :
         /\ tagCall' = [resource_name |-> resource_name,
                        additional_tags |-> additional_tags]
         /\ tagResult' = Some(merge_tags(config, resource_name, additional_tags))
    /\ UNCHANGED <<config, netVars>>

TagNext == MergeTags

TagSpec == TagInit /\ [][TagNext]_vars

\* ------------------------------------- address arithmetic (test_properties.py)

RECURSIVE Pow2(_)
Pow2(n) == IF n = 0 THEN 1 ELSE 2 * Pow2(n - 1)

\* An address is the pair of its upper and lower 16 bits.
AddrLe(x, y) == x[1] < y[1] \/ (x[1] = y[1] /\ x[2] <= y[2])

Upper(c) == c[1] * 256 + c[2]

Lower(c) == c[3] * 256 + c[4]

\* ipaddress.ip_network(cidr).network_address: the host bits are masked out.
NetworkAddress(c) ==
    IF c[5] >= 16
    THEN <<Upper(c), Lower(c) - (Lower(c) % Pow2(32 - c[5]))>>
    ELSE <<Upper(c) - (Upper(c) % Pow2(16 - c[5])), 0>>

\* ipaddress.ip_network(cidr).broadcast_address
BroadcastAddress(c) ==
    IF c[5] >= 16
    THEN <<NetworkAddress(c)[1], NetworkAddress(c)[2] + Pow2(32 - c[5]) - 1>>
    ELSE <<NetworkAddress(c)[1] + Pow2(16 - c[5]) - 1, 65535>>

\* ipaddress.ip_network(cidr, strict=True) does not raise ValueError.
IsStrictNetwork(c) ==
    /\ \A k \in 1..4 : c[k] \in 0..255
    /\ c[5] \in 0..32
    /\ NetworkAddress(c) = <<Upper(c), Lower(c)>>

\* ip_network(cidr).num_addresses, for prefixes of 8 bits and more.
NumAddresses(c) == Pow2(32 - c[5])

\* subnet.subnet_of(vpc_cidr)
SubnetOf(a, b) ==
    /\ AddrLe(NetworkAddress(b), NetworkAddress(a))
    /\ AddrLe(BroadcastAddress(a), BroadcastAddress(b))

\* net1.overlaps(net2)
Overlaps(a, b) ==
    /\ AddrLe(NetworkAddress(a), BroadcastAddress(b))
    /\ AddrLe(NetworkAddress(b), BroadcastAddress(a))

\* 10.0.0.0/8, 172.16.0.0/12, 192.168.0.0/16
PrivateNetworks == { <<10, 0, 0, 0, 8>>, <<172, 16, 0, 0, 12>>, <<192, 168, 0, 0, 16>> }

\* network.is_private
IsPrivate(c) == \E p \in PrivateNetworks : SubnetOf(c, p)

RECURSIVE SumAddresses(_, _)
SumAddresses(d, n) ==
    IF n > Len(d) THEN 0 ELSE NumAddresses(d[n].cidr) + SumAddresses(d, n + 1)

\* ------------------------------------------------------------------ claims

\* The positions in calls of the calls of one constructor.
CallsOf(kind) == { n \in 1..Len(calls) : calls[n].kind = kind }

\* The calls of one constructor, in call order.
CallSeq(kind) == SelectSeq(calls, LAMBDA c : c.kind = kind)

\* The subordinate blocks of the request: positions 1.. of MY_CIDR (0-based).
Subordinates == SubSeq(MY_CIDR, 2, Len(MY_CIDR))

\* The subnet loop has run to its end.
SubnetsDone == pc \in {"igw", "eip", "ngw", "rt", "done"}

\* C1: when the build completes, exactly one RouteTable has been provisioned;
\* it has exactly one route, to 0.0.0.0/0, whose target is the id of the one
\* NatGateway handle and is the id of no InternetGateway handle.
C1_DefaultRouteTargetsNat ==
    /\ pc = "done" => Cardinality(CallsOf("RouteTable")) = 1
    /\ \A r \in CallsOf("RouteTable") :
         /\ Len(calls[r].routes) = 1
         /\ calls[r].routes[1].cidr_block = DefaultRoute
         /\ Cardinality(CallsOf("NatGateway")) = 1
         /\ \A g \in CallsOf("NatGateway") : calls[r].routes[1].gateway_id = calls[g].id
         /\ \A g \in CallsOf("InternetGateway") : calls[r].routes[1].gateway_id # calls[g].id

\* A completed build of a request with two subnets, the first of them named ngw.
C1_Witness ==
    /\ pc = "done"
    /\ Len(MY_CIDR) = 3
    /\ MY_CIDR[2].name = "ngw"
    /\ CallsOf("InternetGateway") # {}

\* C2: every NatGateway call has as subnet_id the id of the Subnet handle made
\* from the block at position 1 of the request, and as allocation_id the id of
\* the ElasticAddress handle, whatever the blocks at positions >= 2.
C2_NatInEgressSubnet ==
    \A g \in CallsOf("NatGateway") :
        /\ \E s \in CallsOf("Subnet") :
              /\ calls[s].name = MY_CIDR[2].name
              /\ calls[s].cidr_block = MY_CIDR[2].cidr
              /\ calls[g].subnet_id = calls[s].id
        /\ \E e \in CallsOf("Eip") : calls[g].allocation_id = calls[e].id

\* C3: at every point of the run the Subnet calls made so far are the
\* subordinate blocks in request order, each with the block's name and cidr and
\* the id of the Network handle as vpc_id; once the loop ends none is missing.
C3_SubnetsInRequestOrder ==
    /\ Len(CallSeq("Subnet")) <= Len(Subordinates)
    /\ SubnetsDone => Len(CallSeq("Subnet")) = Len(Subordinates)
    /\ \A n \in 1..Len(CallSeq("Subnet")) :
         /\ CallSeq("Subnet")[n].name = Subordinates[n].name
         /\ CallSeq("Subnet")[n].cidr_block = Subordinates[n].cidr
         /\ \E v \in CallsOf("Vpc") : CallSeq("Subnet")[n].vpc_id = calls[v].id

\* C4: when the build of a request with n subordinate blocks completes, there
\* has been one Vpc call, n Subnet calls and one call each of InternetGateway,
\* Eip, NatGateway and RouteTable: n + 5 calls, no resource made twice.
C4_CallCounts ==
    pc = "done" =>
        /\ Cardinality(CallsOf("Vpc")) = 1
        /\ Cardinality(CallsOf("Subnet")) = Len(MY_CIDR) - 1
        /\ Cardinality(CallsOf("InternetGateway")) = 1
        /\ Cardinality(CallsOf("Eip")) = 1
        /\ Cardinality(CallsOf("NatGateway")) = 1
        /\ Cardinality(CallsOf("RouteTable")) = 1
        /\ Len(calls) = (Len(MY_CIDR) - 1) + 5
        /\ \A m, n \in 1..Len(calls) :
              m # n => <<calls[m].kind, calls[m].name>> # <<calls[n].kind, calls[n].name>>

\* A completed build of a request with more than one subnet.
C4_Witness == pc = "done" /\ Len(MY_CIDR) >= 3

\* The address-space rules of a request (position 0 is the container).
MalformedCidr(d) == \E n \in 1..Len(d) : ~IsStrictNetwork(d[n].cidr)

PublicRangeUsed(d) == \E n \in 1..Len(d) : ~IsPrivate(d[n].cidr)

SubnetNotContained(d) == \E n \in 2..Len(d) : ~SubnetOf(d[n].cidr, d[1].cidr)

OverlappingSubnets(d) ==
    \E m, n \in 2..Len(d) : m # n /\ Overlaps(d[m].cidr, d[n].cidr)

InsufficientCapacity(d) == Len(d) >= 1 /\ SumAddresses(d, 2) > NumAddresses(d[1].cidr)

ViolatesAddressRules(d) ==
    \/ MalformedCidr(d)
    \/ PublicRangeUsed(d)
    \/ SubnetNotContained(d)
    \/ OverlappingSubnets(d)
    \/ InsufficientCapacity(d)

ValidationErrors ==
    {"MalformedCidr", "PublicRangeUsed", "SubnetNotContained", "OverlappingSubnets",
     "InsufficientCapacity"}

\* C5: for a request that violates an address-space rule no constructor call
\* is ever made, and a run that has ended has ended with a validation error.
C5_InvalidRequestNoCalls ==
    ViolatesAddressRules(MY_CIDR) =>
        /\ calls = <<>>
        /\ pc # "done"
        /\ pc = "raised" => err \in ValidationErrors

\* C6: a request with a subordinate block outside the container block makes no
\* constructor call and ends with SubnetNotContained; and the range of every
\* provisioned Subnet is within the range of the provisioned Network.
C6_Containment ==
    /\ SubnetNotContained(MY_CIDR) =>
         /\ calls = <<>>
         /\ pc = "raised" => err = "SubnetNotContained"
    /\ \A s \in CallsOf("Subnet"), v \in CallsOf("Vpc") :
         SubnetOf(calls[s].cidr_block, calls[v].cidr_block)

\* C7: a request with two intersecting subordinate blocks makes no constructor
\* call and ends with OverlappingSubnets; and no two provisioned Subnets have
\* intersecting ranges.
C7_NonOverlap ==
    /\ OverlappingSubnets(MY_CIDR) =>
         /\ calls = <<>>
         /\ pc = "raised" => err = "OverlappingSubnets"
    /\ \A s, t \in CallsOf("Subnet") :
         s # t => ~Overlaps(calls[s].cidr_block, calls[t].cidr_block)

\* C8: a request with a block outside private address space makes no
\* constructor call and ends with PublicRangeUsed; and every provisioned Network
\* and Subnet has a private cidr.
C8_PrivateRange ==
    /\ PublicRangeUsed(MY_CIDR) =>
         /\ calls = <<>>
         /\ pc = "raised" => err = "PublicRangeUsed"
    /\ \A n \in CallsOf("Vpc") \cup CallsOf("Subnet") : IsPrivate(calls[n].cidr_block)

\* The defaults of a merge: the configured globalTags, none when not configured.
Defaults == IF config.some THEN config.val ELSE EmptyDict

\* The additional tags of the last merge_tags call, none when None.
Additional ==
    IF tagCall.additional_tags.some THEN tagCall.additional_tags.val ELSE EmptyDict

\* C9: merge_tags(name, additional) returns the dict over
\* keys(defaults) U {Name} U keys(additional) whose value at k is additional[k]
\* if k is in additional, else name if k is Name, else defaults[k]; with
\* additional None or empty that is defaults overridden by Name = name; every
\* call returns a dict.
C9_TagPrecedence ==
    tagCall.resource_name # "" =>
        /\ tagResult.some
        /\ DOMAIN tagResult.val = (DOMAIN Defaults) \cup {"Name"} \cup (DOMAIN Additional)
        /\ \A k \in DOMAIN tagResult.val :
              tagResult.val[k] =
                  IF k \in DOMAIN Additional THEN Additional[k]
                  ELSE IF k = "Name" THEN tagCall.resource_name
                  ELSE Defaults[k]
        /\ Additional = EmptyDict =>
              /\ tagResult.val["Name"] = tagCall.resource_name
              /\ \A k \in (DOMAIN Defaults) \ {"Name"} : tagResult.val[k] = Defaults[k]

\* A merge in which defaults and additional both define Name, with values that
\* differ from each other and from the resource name.
C9_Witness ==
    /\ tagResult.some
    /\ "Name" \in DOMAIN Defaults
    /\ "Name" \in DOMAIN Additional
    /\ Defaults["Name"] # Additional["Name"]
    /\ Additional["Name"] # tagCall.resource_name
    /\ "Environment" \in (DOMAIN Defaults) \ (DOMAIN Additional)

\* C10: every constructor call carries tags, and they hold the process-wide
\* default tags and a Name entry (node-specific tags may override values).
C10_CallsCarryMergedTags ==
    \A n \in 1..Len(calls) :
        /\ calls[n].tags.some
        /\ DOMAIN merge_tags(config, calls[n].name, None) \subseteq DOMAIN calls[n].tags.val

\* The handles a call was given: its id arguments, its route targets and a
\* parent that is a resource.
DependsOn(c) ==
    ({c.vpc_id, c.allocation_id, c.subnet_id, c.parent}
        \cup { c.routes[k].gateway_id : k \in 1..Len(c.routes) }) \ {NoId, Self}

\* Some call of the kind was made before call n.
Before(kind, n) == \E m \in CallsOf(kind) : m < n

PlannedNode(k) ==
    LET L == Len(MY_CIDR)
    IN  IF k = 1 THEN <<"Vpc", "kubernetes-vpc">>
        ELSE IF k <= L THEN <<"Subnet", MY_CIDR[k].name>>
        ELSE IF k = L + 1 THEN <<"InternetGateway", "public-igw">>
        ELSE IF k = L + 2 THEN <<"Eip", "natgw-eip">>
        ELSE IF k = L + 3 THEN <<"NatGateway", "ngw">>
        ELSE <<"RouteTable", "nat-route-table">>

\* The node whose constructor call the statement named by the exception makes.
FailedNode ==
    IF raisedAt = "vpc" THEN <<"Vpc", "kubernetes-vpc">>
    ELSE IF raisedAt = "subnets" THEN <<"Subnet", MY_CIDR[i].name>>
    ELSE IF raisedAt = "igw" THEN <<"InternetGateway", "public-igw">>
    ELSE IF raisedAt = "eip" THEN <<"Eip", "natgw-eip">>
    ELSE IF raisedAt = "ngw" THEN <<"NatGateway", "ngw">>
    ELSE IF raisedAt = "rt" THEN <<"RouteTable", "nat-route-table">>
    ELSE <<"none", "none">>

C13_PlanningTotal ==
    (Len(MY_CIDR) >= 1 /\ ~ViolatesAddressRules(MY_CIDR)) =>
        err \notin {"KeyError", "IndexError"}

\* C14: for a request with a first block, the Network is provisioned with the
\* cidr of the block at position 0; that block is never provisioned as a
\* Subnet; and once the loop has ended every block at a position >= 1 has been
\* provisioned as a Subnet.
C14_ContainerByPosition ==
    Len(MY_CIDR) >= 1 =>
        /\ \A v \in CallsOf("Vpc") : calls[v].cidr_block = MY_CIDR[1].cidr
        /\ \A s \in CallsOf("Subnet") : calls[s].name # MY_CIDR[1].name
        /\ SubnetsDone =>
              \A n \in 2..Len(MY_CIDR) :
                  \E s \in CallsOf("Subnet") : calls[s].name = MY_CIDR[n].name

\* Call n was given, directly or through the calls it was given, the handle of
\* a Vpc call.
RECURSIVE DependsOnNetwork(_)
DependsOnNetwork(n) ==
    \/ calls[n].kind = "Vpc"
    \/ \E m \in DependsOn(calls[n]) : m \in 1..(n - 1) /\ DependsOnNetwork(m)

C16_SubnetAttributesKept ==
    /\ pc = "done" =>
          \A n \in 2..Len(MY_CIDR) :
              \E s \in CallsOf("Subnet") :
                  /\ calls[s].name = MY_CIDR[n].name
                  /\ attrs[MY_CIDR[n].name] = calls[s].id
    /\ attrs["kubernetes_vpc"] \in {NoId} \cup { calls[v].id : v \in CallsOf("Vpc") }
    /\ \A n \in CallsOf("Subnet") \cup CallsOf("InternetGateway") \cup CallsOf("RouteTable") :
          \E v \in CallsOf("Vpc") : calls[n].vpc_id = calls[v].id
    /\ \A g \in CallsOf("NatGateway") :
          \E s \in CallsOf("Subnet") : calls[g].subnet_id = calls[s].id

====
